---- MODULE Spec2Model ----
(***************************************************************************)
(* psidata: the filename metadata parser, the discovery-load-merge        *)
(* pipeline (dataset.py), the structured query loader (load_raw_jmes) and *)
(* the archive packaging / validation utilities (postprocess.py).         *)
(*                                                                         *)
(* Strings are modelled as what the code inspects of them: a file stem is *)
(* the sequence of its space-separated tokens, a path is the sequence of  *)
(* its components, and the operators named *Chars / *Fields give the      *)
(* characters a token or component is spelled with where the code looks   *)
(* inside it.                                                              *)
(***************************************************************************)
EXTENDS Integers, Sequences, FiniteSets, TLC

VARIABLES
    \* -- filename parser (get_filename_parser / parse_psi_filename)
    experiments,      \* the category labels the pattern was compiled from
    include_ear,      \* the flag bound by functools.partial
    stem,             \* filename.stem handed to the parser (ParseSpec)
    parsed,           \* what parse_psi_filename returned or raised
    \* -- load
    files,            \* data_path.glob(glob), in discovery order
    shape,            \* the kind of object the loader cb returns
    should_load_cb,   \* the caller's inclusion predicate
    include_dataset,
    info_as_cols,
    i,                \* position of the for loop in files
    data,             \* the local variable data (last payload loaded)
    result,           \* the accumulator list
    calls,            \* callbacks invoked so far, with what each did
    outcome,          \* "running", "returned" or "raised"
    error,            \* the exception load raised
    df,               \* the value load returned
    \* -- load_raw_jmes
    member,           \* name of the member inside the archive
    file_format,      \* the file_format argument, then the resolved format
    query,            \* result name -> path query
    document,         \* decoded content of the member
    qpc,              \* "start", "built", "called" or "failed"
    qresult,          \* what the construction raised or cb returned
    \* -- zip_data / archive_data / validate
    dirs,             \* the directories zip_data iterates over
    disk,             \* directory -> (file name -> content) of the unpacked dirs
    zips,             \* directory -> (member name -> content) of its zip, or NoZip
    sidecar,          \* directories whose .md5 sidecar was written
    removed,          \* directories removed by shutil.rmtree
    printed,          \* directories whose IOError was printed
    k,                \* position of zip_data's loop in dirs
    apc,              \* position inside archive_data for dirs[k]
    validated         \* the validate calls made: what differed, what was raised

parserVars == <<experiments, include_ear, stem, parsed>>
loadVars == <<files, shape, should_load_cb, include_dataset, info_as_cols, i,
              data, result, calls, outcome, error, df>>
queryVars == <<member, file_format, query, document, qpc, qresult>>
archiveVars == <<dirs, disk, zips, sidecar, removed, printed, k, apc, validated>>
vars == <<parserVars, loadVars, queryVars, archiveVars>>

-----------------------------------------------------------------------------
(* Bounds of the model *)

MaxTail == 3      \* tokens after the animal id in an enumerated stem
MaxFiles == 2     \* files the glob matches
MaxDirs == 2      \* directories zip_data packages
MaxValidateCalls == 1   \* calls of validate made outside archive_data

-----------------------------------------------------------------------------
(* Python values.  Every value carries its type tag, its text (a sequence  *)
(* of strings) and its numeric fields, so that any two values compare.     *)

PyNone == [t |-> "none", s |-> <<>>, n |-> <<>>]
PyStr(toks) == [t |-> "str", s |-> toks, n |-> <<>>]
PyInt(x) == [t |-> "int", s |-> <<>>, n |-> <<x>>]
PyPath(parts) == [t |-> "path", s |-> parts, n |-> <<>>]
PyDatetime(f) == [t |-> "datetime", s |-> <<>>, n |-> f]
PyDate(f) == [t |-> "date", s |-> <<>>, n |-> SubSeq(f, 1, 3)]
PyTime(f) == [t |-> "time", s |-> <<>>, n |-> SubSeq(f, 4, 6)]

Range(q) == {q[x] : x \in DOMAIN q}
Keys(info) == [x \in DOMAIN info |-> info[x][1]]
Lookup(info, key) == (CHOOSE x \in Range(info) : x[1] = key)[2]
HasKey(info, key) == \E x \in Range(info) : x[1] = key

-----------------------------------------------------------------------------
(* The filename parser *)

\* The digits a token spells as YYYYMMDD-HHMMSS, <<>> for a token that is
\* not of the form \d{8}-\d{6}.
StampFields(tok) ==
    CASE tok = "20230101-120000" -> <<2023, 1, 1, 12, 0, 0>>
      [] tok = "20230102-130000" -> <<2023, 1, 2, 13, 0, 0>>
      [] tok = "20231301-120000" -> <<2023, 13, 1, 12, 0, 0>>
      [] OTHER -> <<>>

\* \w+ and [-\w]+ on a whole token
IsWord(tok) == tok \in {"alice", "bob", "mouse1", "mouse2", "left", "right",
                        "abr_io"}
IsId(tok) == IsWord(tok) \/ tok = "m-1" \/ StampFields(tok) # <<>>
IsEar(tok) == tok \in {"left", "right"}

\* The category label a token begins with ("" when it begins with none of
\* the labels in use) and the text (?:label)(_\w+)? captures from it.
LabelOf(tok) ==
    CASE tok = "abr_io" -> "abr"
      [] tok = "dpoae.2" -> "dpoae"
      [] OTHER -> ""
TypeCapture(tok) ==
    CASE tok = "abr_io" -> "abr_io"
      [] tok = "dpoae.2" -> "dpoae"
      [] OTHER -> ""
IsType(tok, labels) == LabelOf(tok) # "" /\ LabelOf(tok) \in labels

NoMatch == [matched |-> FALSE, groups |-> <<>>]

\* ((?P<note>.*) )?(?P<experiment_type>...).*$ tried at token `from`: the
\* greedy note runs up to the last token that starts with a label.
TailMatch(toks, from, labels) ==
    LET later == {j \in (from + 1)..Len(toks) : IsType(toks[j], labels)}
        last == CHOOSE j \in later : \A j2 \in later : j2 <= j
    IN  IF from > Len(toks) THEN [ok |-> FALSE, note |-> PyNone, type |-> PyNone]
        ELSE IF later # {}
        THEN [ok |-> TRUE, note |-> PyStr(SubSeq(toks, from, last - 1)),
              type |-> PyStr(<<TypeCapture(toks[last])>>)]
        ELSE IF IsType(toks[from], labels)
        THEN [ok |-> TRUE, note |-> PyNone,
              type |-> PyStr(<<TypeCapture(toks[from])>>)]
        ELSE [ok |-> FALSE, note |-> PyNone, type |-> PyNone]

\* pattern.match(stem): the groups in the order the pattern names them.
PatternMatch(toks, labels) ==
    LET withEar == TailMatch(toks, 5, labels)
        without == TailMatch(toks, 4, labels)
        Groups(ear, tail) ==
            << <<"datetime", PyStr(<<toks[1]>>)>>,
               <<"experimenter", PyStr(<<toks[2]>>)>>,
               <<"animal_id", PyStr(<<toks[3]>>)>>,
               <<"ear", ear>>,
               <<"note", tail.note>>,
               <<"experiment_type", tail.type>> >>
    IN  IF Len(toks) < 4 THEN NoMatch
        ELSE IF ~(StampFields(toks[1]) # <<>> /\ IsWord(toks[2]) /\ IsId(toks[3]))
        THEN NoMatch
        ELSE IF IsEar(toks[4]) /\ withEar.ok
        THEN [matched |-> TRUE, groups |-> Groups(PyStr(<<toks[4]>>), withEar)]
        ELSE IF without.ok
        THEN [matched |-> TRUE, groups |-> Groups(PyNone, without)]
        ELSE NoMatch

\* dt.datetime.strptime(..., '%Y%m%d-%H%M%S') accepts the fields
IsLeap(year) == year % 4 = 0 /\ (year % 100 # 0 \/ year % 400 = 0)
DaysIn(year, month) ==
    IF month = 2 THEN (IF IsLeap(year) THEN 29 ELSE 28)
    ELSE IF month \in {4, 6, 9, 11} THEN 30 ELSE 31
StrptimeOk(f) ==
    /\ f[1] >= 1
    /\ f[2] \in 1..12
    /\ f[3] \in 1..DaysIn(f[1], f[2])
    /\ f[4] \in 0..23
    /\ f[5] \in 0..59
    /\ f[6] \in 0..61

Returned(info) == [status |-> "ok", info |-> info, exc |-> "", about |-> <<>>]
Raised(exc, about) == [status |-> "raise", info |-> <<>>, exc |-> exc, about |-> about]
NotParsed == [status |-> "none", info |-> <<>>, exc |-> "", about |-> <<>>]

DropKey(info, key) == SelectSeq(info, LAMBDA x : x[1] # key)
SetKey(info, key, v) ==
    IF HasKey(info, key)
    THEN [x \in DOMAIN info |-> IF info[x][1] = key THEN <<key, v>> ELSE info[x]]
    ELSE Append(info, <<key, v>>)

\* A parser that forgets to derive the time of day.
ParseWithoutTime(toks, ear, labels) ==
    LET m == PatternMatch(toks, labels)
        f == StampFields(toks[1])
        g1 == SetKey(m.groups, "datetime", PyDatetime(f))
        g2 == SetKey(g1, "date", PyDate(f))
    IN  IF ~m.matched THEN Raised("FilenameFormatError", toks)
        ELSE IF ~StrptimeOk(f) THEN Raised("StrptimeValueError", <<toks[1]>>)
        ELSE IF ~ear THEN Returned(DropKey(g2, "ear"))
        ELSE Returned(g2)

\* parse_psi_filename(filename, include_ear, pattern).  FilenameFormatError is
\* ValueError('Could not parse {stem}'); a ValueError of strptime is not an
\* AttributeError and leaves the function as it is.
parse_psi_filename(toks, ear, labels) ==
    LET m == PatternMatch(toks, labels)
        f == StampFields(toks[1])
        g1 == SetKey(m.groups, "datetime", PyDatetime(f))
        g2 == SetKey(g1, "date", PyDate(f))
        g3 == SetKey(g2, "time", PyTime(f))
    IN  IF ~m.matched THEN Raised("FilenameFormatError", toks)
        ELSE IF ~StrptimeOk(f) THEN Raised("StrptimeValueError", <<toks[1]>>)
        ELSE IF ~ear THEN Returned(DropKey(g3, "ear"))
        ELSE Returned(g3)

-----------------------------------------------------------------------------
(* load: paths, payloads and the merge *)

\* A matched file: its directory components below and including data_path,
\* the tokens of its stem, and what is stored in it (the columns and rows the
\* loader reads from it, or unreadable).
File(dir, toks, cols, rows, readable) ==
    [dir |-> dir, stem |-> toks, cols |-> cols, rows |-> rows, readable |-> readable]
NoFile == File(<<>>, <<>>, {}, 0, FALSE)

GoodStemA == <<"20230101-120000", "alice", "mouse1", "abr_io">>
GoodStemB == <<"20230102-130000", "bob", "mouse2", "abr_io">>

FileUniverse ==
    { File(<<"data", "ds1">>, GoodStemA, {"level"}, 1, TRUE),
      File(<<"data", "ds2">>, GoodStemB, {"level"}, 1, TRUE),
      File(<<"data", "_exclude">>, GoodStemA, {"level"}, 1, TRUE),
      File(<<"data", "not_excluded">>, GoodStemB, {"level"}, 1, TRUE),
      File(<<"data", "ds1", ".imaris_cache">>, GoodStemA, {"level"}, 1, TRUE),
      File(<<"data", "ds1">>, <<"alice", "mouse1">>, {"level"}, 1, TRUE),
      File(<<"data", "ds2">>, <<"20230101-120000", "bob", "m-1", "left", "abr_io">>,
           {"level", "experimenter"}, 1, TRUE),
      File(<<"data", "ds1">>, <<"20230102-130000", "alice", "m-1", "abr_io">>,
           {"level"}, 1, FALSE),
      File(<<"data", "ds2">>, <<"20230102-130000", "alice", "mouse2", "abr_io">>,
           {"level", "dataset"}, 2, TRUE) }

\* The characters of a path component, cut at the reserved markers it holds.
CompChars(c) ==
    CASE c = "_exclude" -> <<"_exclude">>
      [] c = "not_excluded" -> <<"not", "_exclude", "d">>
      [] c = ".imaris_cache" -> <<".imaris_cache">>
      [] OTHER -> <<c>>

RECURSIVE JoinChars(_, _)
JoinChars(parts, sep) ==
    IF parts = <<>> THEN <<>>
    ELSE IF Len(parts) = 1 THEN CompChars(parts[1])
    ELSE CompChars(parts[1]) \o <<sep>> \o JoinChars(Tail(parts), sep)

\* str(filename)
PathStr(filename) ==
    JoinChars(filename.dir, "/") \o <<"/">> \o JoinChars(filename.stem, " ")

\* needle in hay
Contains(needle, hay) ==
    \E a \in 1..(Len(hay) - Len(needle) + 1) :
        SubSeq(hay, a, a + Len(needle) - 1) = needle

\* The inclusion predicates a caller passes: None (every file is loaded), one
\* that rejects every file, one that keeps a single dataset folder, one that
\* fails on some files.
Predicates == {"None", "never", "ds1_only", "fragile"}
ShouldLoad(pred, filename) ==
    CASE pred = "None" -> "true"
      [] pred = "never" -> "false"
      [] pred = "ds1_only" -> IF "ds1" \in Range(filename.dir) THEN "true" ELSE "false"
      [] OTHER -> IF "ds2" \in Range(filename.dir) THEN "raise" ELSE "true"

\* cb(filename): a DataFrame, a Series or a dict holding the file's columns.
NoData == [kind |-> "", nrows |-> 0, col |-> <<>>, index |-> <<>>]
Payload(filename, kind) ==
    LET rows == IF kind = "table" THEN filename.rows ELSE 1
    IN  [kind |-> kind, nrows |-> rows,
         col |-> [c \in filename.cols |-> [r \in 1..rows |-> PyInt(10 * r)]],
         index |-> <<>>]

\* data[k] = v
SetCol(d, key, v) ==
    [d EXCEPT !.col = [c \in (DOMAIN d.col) \cup {key} |->
                          IF c = key THEN [r \in 1..d.nrows |-> v] ELSE d.col[c]]]

\* for k, v in info.items(): the fields before a colliding name are already
\* written into data when the ValueError is raised.
RECURSIVE MergeColumns(_, _, _)
MergeColumns(d, info, j) ==
    IF j > Len(info) THEN [data |-> d, exc |-> ""]
    ELSE IF info[j][1] \in DOMAIN d.col
    THEN [data |-> d, exc |-> "ColumnCollisionError"]
    ELSE MergeColumns(SetCol(d, info[j][1], info[j][2]), info, j + 1)

\* pd.concat([data], keys=[tuple(info.values())], names=list(info.keys()));
\* pd.concat accepts Series and DataFrame objects only.
MergeIndex(d, info) ==
    IF d.kind = "dict" THEN [data |-> d, exc |-> "TypeError"]
    ELSE [data |-> [d EXCEPT !.index = info \o d.index], exc |-> ""]

\* if include_dataset: info['dataset'] = filename.parent
AddDataset(info, filename, flag) ==
    IF flag THEN SetKey(info, "dataset", PyPath(filename.dir)) ELSE info

Call(fn, at, out) == [fn |-> fn, at |-> at, out |-> out]

\* The body of the try block for one file: what to do next ("continue",
\* "append" or "raise"), the value of data afterwards, the callbacks invoked.
ProcessFile(filename, at, old) ==
    LET sl == ShouldLoad(should_load_cb, filename)
        c1 == <<Call("should_load_cb", at, sl)>>
        loaded == Payload(filename, shape)
        c2 == c1 \o <<Call("cb", at, IF filename.readable THEN "ok" ELSE "raise")>>
        p == parse_psi_filename(filename.stem, include_ear, experiments)
        c3 == c2 \o <<Call("filename_parser", at, p.status)>>
        info == AddDataset(p.info, filename, include_dataset)
        m == IF info_as_cols THEN MergeColumns(loaded, info, 1)
             ELSE MergeIndex(loaded, info)
        c4 == c3 \o <<Call("merge", at, IF m.exc = "" THEN "ok" ELSE "raise")>>
        Do(what, d, cs, cause) == [do |-> what, data |-> d, calls |-> cs, cause |-> cause]
    IN  IF Contains(<<"_exclude">>, PathStr(filename)) THEN Do("continue", old, <<>>, "")
        ELSE IF Contains(<<".imaris_cache">>, PathStr(filename))
        THEN Do("continue", old, <<>>, "")
        ELSE IF sl = "raise" THEN Do("raise", old, c1, "PredicateError")
        ELSE IF sl = "false" THEN Do("continue", old, c1, "")
        ELSE IF ~filename.readable THEN Do("raise", old, c2, "LoaderError")
        ELSE IF p.status = "raise" THEN Do("raise", loaded, c3, p.exc)
        ELSE IF m.exc # "" THEN Do("raise", m.data, c4, m.exc)
        ELSE Do("append", m.data, c4, "")

NoError == [type |-> "", path |-> NoFile, cause |-> ""]
NoDf == [how |-> "", records |-> <<>>]

\* A loop that skips a file whose processing failed instead of re-raising.
LoadStepSwallow ==
    /\ outcome = "running"
    /\ i <= Len(files)
    /\ LET r == ProcessFile(files[i], i, data)
       IN  /\ data' = r.data
           /\ calls' = calls \o r.calls
           /\ result' = IF r.do = "append" THEN Append(result, r.data) ELSE result
           /\ i' = i + 1
           /\ UNCHANGED <<outcome, error>>
    /\ UNCHANGED <<files, shape, should_load_cb, include_dataset, info_as_cols, df>>
    /\ UNCHANGED <<parserVars, queryVars, archiveVars>>

\* One iteration of `for filename in data_path.glob(glob)`; an exception is
\* re-raised as ValueError('Error processing {filename}') from e.
LoadStep ==
    /\ outcome = "running"
    /\ i <= Len(files)
    /\ LET r == ProcessFile(files[i], i, data)
       IN  /\ data' = r.data
           /\ calls' = calls \o r.calls
           /\ result' = IF r.do = "append" THEN Append(result, r.data) ELSE result
           /\ IF r.do = "raise"
              THEN /\ outcome' = "raised"
                   /\ error' = [type |-> "FileProcessingError", path |-> files[i],
                                cause |-> r.cause]
                   /\ i' = i
              ELSE /\ i' = i + 1
                   /\ UNCHANGED <<outcome, error>>
    /\ UNCHANGED <<files, shape, should_load_cb, include_dataset, info_as_cols, df>>
    /\ UNCHANGED <<parserVars, queryVars, archiveVars>>

\* An end of load without the test for an empty accumulator.
LoadFinishNoCheck ==
    /\ outcome = "running"
    /\ i > Len(files)
    /\ outcome' = "returned"
    /\ df' = [how |-> IF data.kind = "table" THEN "concat" ELSE "frame",
              records |-> result]
    /\ error' = error
    /\ UNCHANGED <<files, shape, should_load_cb, include_dataset, info_as_cols,
                   i, data, result, calls>>
    /\ UNCHANGED <<parserVars, queryVars, archiveVars>>

\* After the loop: ValueError('No data found') for an empty accumulator, else
\* pd.concat(result) or pd.DataFrame(result) by the type of the last payload.
LoadFinish ==
    /\ outcome = "running"
    /\ i > Len(files)
    /\ IF Len(result) = 0
       THEN /\ outcome' = "raised"
            /\ error' = [type |-> "EmptyResultError", path |-> NoFile, cause |-> ""]
            /\ df' = df
       ELSE /\ outcome' = "returned"
            /\ df' = [how |-> IF data.kind = "table" THEN "concat" ELSE "frame",
                      records |-> result]
            /\ error' = error
    /\ UNCHANGED <<files, shape, should_load_cb, include_dataset, info_as_cols,
                   i, data, result, calls>>
    /\ UNCHANGED <<parserVars, queryVars, archiveVars>>

-----------------------------------------------------------------------------
(* load_raw_jmes *)

\* The names dataset.py binds at module level (its import statements).
Imports == {"dt", "functools", "Path", "re", "yaml", "zipfile", "jmespath", "pd"}

\* filename.endswith(suffix)
Suffix(name) ==
    CASE name = "io.json" -> ".json"
      [] name = "io.yaml" -> ".yaml"
      [] name = "final.preferences" -> ".preferences"
      [] OTHER -> ""

\* jmespath.compile(q): the keys of a dotted path, <<>> for malformed syntax.
QueryPath(q) ==
    CASE q = "output.ch.channel" -> <<"output", "ch", "channel">>
      [] q = "output.ch" -> <<"output", "ch">>
      [] q = "output.nope" -> <<"output", "nope">>
      [] q = "output.ch.channel.x" -> <<"output", "ch", "channel", "x">>
      [] OTHER -> <<>>
Malformed(q) == QueryPath(q) = <<>>

IsPrefix(a, b) == Len(a) <= Len(b) /\ SubSeq(b, 1, Len(a)) = a
PyDict(at) == [t |-> "dict", s |-> at, n |-> <<>>]
Leaf(path, value) == [path |-> path, value |-> value]

\* compiled.search(text) on a decoded mapping, given as its leaves: the value
\* at the path, the nested mapping there, or None.
Search(doc, path) ==
    IF \E l \in doc : l.path = path
    THEN (CHOOSE l \in doc : l.path = path).value
    ELSE IF \E l \in doc : IsPrefix(path, l.path)
    THEN PyDict(path)
    ELSE PyNone

NoResult == [status |-> "none", exc |-> "", values |-> <<>>]
QueryOk(values) == [status |-> "ok", exc |-> "", values |-> values]
QueryRaised(exc) == [status |-> "raise", exc |-> exc, values |-> <<>>]

\* Lines 144-154: the format given, or guessed from the member's ending.
ResolveFormat(name, format) ==
    IF format = "None"
    THEN (IF Suffix(name) = ".json" THEN "json"
          ELSE IF Suffix(name) \in {".yaml", ".preferences"} THEN "yaml"
          ELSE "undetermined")
    ELSE format

\* load_raw_jmes up to the definition of cb.
BuildQueryLoader ==
    /\ qpc = "start"
    /\ LET resolved == ResolveFormat(member, file_format)
       IN  IF \E x \in DOMAIN query : Malformed(query[x][2])
           THEN /\ qpc' = "failed"
                /\ qresult' = QueryRaised("ParseError")
                /\ file_format' = file_format
           ELSE IF resolved \notin {"json", "yaml"}
           THEN /\ qpc' = "failed"
                /\ qresult' = QueryRaised("UnsupportedFormatError")
                /\ file_format' = resolved
           ELSE /\ qpc' = "built"
                /\ qresult' = qresult
                /\ file_format' = resolved
    /\ UNCHANGED <<member, query, document>>
    /\ UNCHANGED <<parserVars, loadVars, archiveVars>>

\* cb(zip_filename): the json branch calls json.load, a name the module never
\* binds; the yaml branch decodes with yaml.full_load.
QueryCallback(format, doc, q) ==
    IF format = "json" /\ "json" \notin Imports THEN QueryRaised("NameError")
    ELSE QueryOk([x \in DOMAIN q |-> <<q[x][1], Search(doc, QueryPath(q[x][2]))>>])

CallQueryLoader ==
    /\ qpc = "built"
    /\ qpc' = "called"
    /\ qresult' = QueryCallback(file_format, document, query)
    /\ UNCHANGED <<member, file_format, query, document>>
    /\ UNCHANGED <<parserVars, loadVars, archiveVars>>

-----------------------------------------------------------------------------
(* zip_data, archive_data and validate *)

NoZip == <<>>

\* md5sum(stream): the digest of a content
Md5(content) == (content * 7 + 3) % 11

\* What a path handed to validate is on disk: the string path + '.zip' is a
\* regular file, the path itself is the directory that was zipped.
PathKinds == {"zip", "dir"}

\* (path / name).is_file(): a companion exists only below a directory.
IsFile(kind, tree, name) == kind = "dir" /\ name \in DOMAIN tree

ValidateOk == [exc |-> "", names |-> {}]
ValidateRaised(exc, names) == [exc |-> exc, names |-> names]

\* validate(path): zipfile.ZipFile(path) cannot open a directory; each member
\* is compared with path / name when that is a file.  The message of the
\* IOError is a plain string literal, so it names no member.
validate(kind, archive, tree) ==
    LET bad == {name \in DOMAIN archive :
                   /\ IsFile(kind, tree, name)
                   /\ Md5(archive[name]) # Md5(tree[name])}
    IN  IF kind = "dir" THEN ValidateRaised("IsADirectoryError", {})
        ELSE IF bad # {} THEN ValidateRaised("IOError", {})
        ELSE ValidateOk

\* The members whose unpacked file differs from the archived one.
Differing(d) == {name \in DOMAIN zips[d] : name \in DOMAIN disk[d] /\ disk[d][name] # zips[d][name]}
Validation(by, d, kind, fault, r) ==
    [by |-> by, dir |-> d, arg |-> kind, fault |-> fault, differing |-> Differing(d),
     exc |-> r.exc, names |-> r.names]

\* archive_data, line 20: shutil.make_archive(str(path), 'zip', str(path))
ArchiveMake ==
    /\ apc = "start"
    /\ k <= Len(dirs)
    /\ zips' = [zips EXCEPT ![dirs[k]] = disk[dirs[k]]]
    /\ apc' = "validate"
    /\ UNCHANGED <<dirs, disk, sidecar, removed, printed, k, validated>>
    /\ UNCHANGED <<parserVars, loadVars, queryVars>>

\* An archive_data whose IOError is not handled before the sidecar is written.
ArchiveValidateUnhandled ==
    /\ apc = "validate"
    /\ \E fault \in BOOLEAN :
          LET d == dirs[k]
              r == IF fault THEN ValidateRaised("IOError", {})
                   ELSE validate("zip", zips[d], disk[d])
          IN  /\ validated' = validated \cup {Validation("archive_data", d, "zip", fault, r)}
              /\ printed' = IF r.exc # "" THEN printed \cup {d} ELSE printed
              /\ apc' = "sidecar"
              /\ k' = k
    /\ UNCHANGED <<dirs, disk, zips, sidecar, removed>>
    /\ UNCHANGED <<parserVars, loadVars, queryVars>>

\* archive_data, line 23: validate(zippath); an IOError (the one validate
\* raises, or a failure to read the archive) is printed by the handler of
\* line 27 and zip_data goes on with the next directory.
ArchiveValidate ==
    /\ apc = "validate"
    /\ \E fault \in BOOLEAN :
          LET d == dirs[k]
              r == IF fault THEN ValidateRaised("IOError", {})
                   ELSE validate("zip", zips[d], disk[d])
          IN  /\ validated' = validated \cup {Validation("archive_data", d, "zip", fault, r)}
              /\ IF r.exc # ""
                 THEN /\ printed' = printed \cup {d}
                      /\ apc' = "start"
                      /\ k' = k + 1
                 ELSE /\ apc' = "sidecar"
                      /\ UNCHANGED <<printed, k>>
    /\ UNCHANGED <<dirs, disk, zips, sidecar, removed>>
    /\ UNCHANGED <<parserVars, loadVars, queryVars>>

\* archive_data, lines 24-25: md5path.write_text(md5sum(zippath.open('rb')))
ArchiveSidecar ==
    /\ apc = "sidecar"
    /\ sidecar' = sidecar \cup {dirs[k]}
    /\ apc' = "rmtree"
    /\ UNCHANGED <<dirs, disk, zips, removed, printed, k, validated>>
    /\ UNCHANGED <<parserVars, loadVars, queryVars>>

\* archive_data, line 26: shutil.rmtree(path); zip_data takes the next one.
ArchiveRmtree ==
    /\ apc = "rmtree"
    /\ removed' = removed \cup {dirs[k]}
    /\ disk' = [disk EXCEPT ![dirs[k]] = <<>>]
    /\ apc' = "start"
    /\ k' = k + 1
    /\ UNCHANGED <<dirs, zips, sidecar, printed, validated>>
    /\ UNCHANGED <<parserVars, loadVars, queryVars>>

\* A file of the unpacked directory changes after the directory was packaged
\* and before it is validated.
Corrupt(name) ==
    /\ apc = "validate"
    /\ disk[dirs[k]][name] = zips[dirs[k]][name]
    /\ disk' = [disk EXCEPT ![dirs[k]][name] = @ + 1]
    /\ UNCHANGED <<dirs, zips, sidecar, removed, printed, k, apc, validated>>
    /\ UNCHANGED <<parserVars, loadVars, queryVars>>

\* validate called on its own for the packaged directory while it is still
\* unpacked, with the zip file or with the directory that was zipped.
ValidateCall(kind) ==
    /\ apc = "validate"
    /\ Cardinality({v \in validated : v.by = "caller"}) < MaxValidateCalls
    /\ LET d == dirs[k]
       IN  validated' = validated \cup
              {Validation("caller", d, kind, FALSE, validate(kind, zips[d], disk[d]))}
    /\ UNCHANGED <<dirs, disk, zips, sidecar, removed, printed, k, apc>>
    /\ UNCHANGED <<parserVars, loadVars, queryVars>>

-----------------------------------------------------------------------------
(* Initial states and specifications *)

IdleParser ==
    /\ experiments = {"abr"}
    /\ include_ear = FALSE
    /\ stem = <<>>
    /\ parsed = NotParsed

IdleLoad ==
    /\ files = <<>>
    /\ shape = "table"
    /\ should_load_cb = "None"
    /\ include_dataset = FALSE
    /\ info_as_cols = TRUE
    /\ i = 1
    /\ data = NoData
    /\ result = <<>>
    /\ calls = <<>>
    /\ outcome = "idle"
    /\ error = NoError
    /\ df = NoDf

IdleQuery ==
    /\ member = ""
    /\ file_format = "None"
    /\ query = <<>>
    /\ document = {}
    /\ qpc = "idle"
    /\ qresult = NoResult

IdleArchive ==
    /\ dirs = <<>>
    /\ disk = <<>>
    /\ zips = <<>>
    /\ sidecar = {}
    /\ removed = {}
    /\ printed = {}
    /\ k = 1
    /\ apc = "idle"
    /\ validated = {}

\* Stems to parse: the first three tokens drawn from HeadTokens, the rest
\* from TailTokens.
HeadTokens == {"20230101-120000", "20231301-120000", "alice", "m-1"}
TailTokens == {"left", "n.b", "abr_io", "dpoae.2"}
Stems ==
    UNION {[1..n -> HeadTokens] : n \in 0..2}
    \cup {h \o t : h \in [1..3 -> HeadTokens],
                   t \in UNION {[1..n -> TailTokens] : n \in 0..MaxTail}}

ParseInit ==
    /\ experiments \in {{"abr"}, {"abr", "dpoae"}}
    /\ include_ear \in BOOLEAN
    /\ stem \in Stems
    /\ parsed = NotParsed
    /\ IdleLoad /\ IdleQuery /\ IdleArchive

\* filename_parser(filename) on its own
ParseName ==
    /\ parsed = NotParsed
    /\ parsed' = parse_psi_filename(stem, include_ear, experiments)
    /\ UNCHANGED <<experiments, include_ear, stem>>
    /\ UNCHANGED <<loadVars, queryVars, archiveVars>>

ParseNext == ParseName
ParseSpec == ParseInit /\ [][ParseNext]_vars

MetadataKeys(ear) ==
    {"datetime", "experimenter", "animal_id", "note", "experiment_type", "date", "time"}
    \cup (IF ear THEN {"ear"} ELSE {})

\* C5: the parser has two outcomes: a stem that matches the pattern in full
\* yields the complete metadata mapping, and a stem that does not match fails
\* with FilenameFormatError identifying the stem; nothing else happens.
C5_TwoOutcomes ==
    parsed # NotParsed =>
        IF PatternMatch(stem, experiments).matched
        THEN /\ parsed.status = "ok"
             /\ Range(Keys(parsed.info)) = MetadataKeys(include_ear)
        ELSE /\ parsed.status = "raise"
             /\ parsed.exc = "FilenameFormatError"
             /\ parsed.about = stem

\* The files a glob can yield: distinct files of the universe in any order.
Discoveries ==
    {fs \in UNION {[1..n -> FileUniverse] : n \in 0..MaxFiles} :
        \A a, b \in DOMAIN fs : a # b => fs[a] # fs[b]}

Init ==
    /\ experiments = {"abr"}
    /\ include_ear \in BOOLEAN
    /\ stem = <<>>
    /\ parsed = NotParsed
    /\ files \in Discoveries
    /\ shape \in {"table", "series", "dict"}
    /\ should_load_cb \in Predicates
    /\ include_dataset \in BOOLEAN
    /\ info_as_cols \in BOOLEAN
    /\ i = 1
    /\ data = NoData
    /\ result = <<>>
    /\ calls = <<>>
    /\ outcome = "running"
    /\ error = NoError
    /\ df = NoDf
    /\ IdleQuery /\ IdleArchive

Next == LoadStep \/ LoadFinish
Spec == Init /\ [][Next]_vars

\* load_raw_jmes: its inputs and specification
Members == {"io.json", "io.yaml", "final.preferences", "io.txt"}
Formats == {"None", "json", "yaml", "xml"}
Queries ==
    { <<>>,
      << <<"primary_output", "output.ch.channel">> >>,
      << <<"missing", "output.nope">> >>,
      << <<"primary_output", "output.ch.channel">>, <<"missing", "output.nope">> >>,
      << <<"ch", "output.ch">>, <<"deep", "output.ch.channel.x">> >>,
      << <<"primary_output", "output.ch.channel">>, <<"bad", "output..ch">> >> }
Documents ==
    { {},
      {Leaf(<<"output", "ch", "channel">>, PyInt(3))},
      {Leaf(<<"output", "ch", "channel">>, PyInt(3)), Leaf(<<"output", "gain">>, PyInt(20))},
      {Leaf(<<"input", "ch", "channel">>, PyInt(1))} }

QueryInit ==
    /\ member \in Members
    /\ file_format \in Formats
    /\ query \in Queries
    /\ document \in Documents
    /\ qpc = "start"
    /\ qresult = NoResult
    /\ IdleParser /\ IdleLoad /\ IdleArchive

QueryNext == BuildQueryLoader \/ CallQueryLoader
QuerySpec == QueryInit /\ [][QueryNext]_vars

\* C7: for a member resolved to JSON the callback returns, for every result
\* name, the value at its path (3 for output.ch.channel on
\* {"output": {"ch": {"channel": 3}}}) and None for a path that is absent.
C7_JsonQueryReturnsValues ==
    (qpc = "called" /\ file_format = "json") =>
        /\ qresult.status = "ok"
        /\ Len(qresult.values) = Len(query)
        /\ \A x \in DOMAIN query :
              /\ qresult.values[x][1] = query[x][1]
              /\ (query[x][2] = "output.ch.channel"
                  /\ Leaf(<<"output", "ch", "channel">>, PyInt(3)) \in document)
                    => qresult.values[x][2] = PyInt(3)
              /\ query[x][2] = "output.nope" => qresult.values[x][2] = PyNone

-----------------------------------------------------------------------------
(* Properties of load *)

Failures == {c \in DOMAIN calls : calls[c].out = "raise"}
CausesOf(fn) ==
    CASE fn = "should_load_cb" -> {"PredicateError"}
      [] fn = "cb" -> {"LoaderError"}
      [] fn = "filename_parser" -> {"FilenameFormatError", "StrptimeValueError"}
      [] OTHER -> {"ColumnCollisionError", "TypeError"}

\* C1: a failure of the inclusion predicate, the loader, the parser or the
\* merge on a file is the last thing load does: no callback is invoked after
\* it, load raises FileProcessingError carrying that file's path and the
\* failure as its cause, and nothing is returned.
C1_FirstFailureHalts ==
    \A c \in Failures :
        /\ c = Len(calls)
        /\ outcome = "raised"
        /\ error.type = "FileProcessingError"
        /\ error.path = files[calls[c].at]
        /\ error.cause \in CausesOf(calls[c].fn)
        /\ df = NoDf
        /\ i = calls[c].at

C1_Witness ==
    /\ outcome = "raised"
    /\ error.type = "FileProcessingError"
    /\ error.path = files[1]
    /\ Len(files) = 2
    /\ calls[Len(calls)].fn = "filename_parser"

\* The files the claims expect in the Dataset: no path component equal to a
\* reserved token, and accepted by the inclusion predicate.
ReservedTokens == {"_exclude", ".imaris_cache"}
ComponentExcluded(f) == \E c \in Range(f.dir) : c \in ReservedTokens
Expected ==
    SelectSeq(files, LAMBDA f : ~ComponentExcluded(f)
                                /\ ShouldLoad(should_load_cb, f) = "true")
\* The file each accumulated record was merged from.
Merged == SelectSeq(calls, LAMBDA c : c.fn = "merge" /\ c.out = "ok")
SourceOf(j) == files[Merged[j].at]
Field(rec, key) == IF info_as_cols THEN rec.col[key][1] ELSE Lookup(rec.index, key)
FromFile(rec, f) ==
    /\ f.cols \subseteq DOMAIN rec.col
    /\ Field(rec, "datetime") = PyDatetime(StampFields(f.stem[1]))
    /\ Field(rec, "experimenter") = PyStr(<<f.stem[2]>>)
    /\ Field(rec, "animal_id") = PyStr(<<f.stem[3]>>)

\* C2: a returned Dataset holds, in discovery order, exactly one merged record
\* for every matched file that has no path component equal to a reserved
\* token and that should_load accepts, and no other record.
C2_DatasetIsExactlyTheIncludedFiles ==
    outcome = "returned" =>
        /\ Len(df.records) = Len(Expected)
        /\ \A j \in DOMAIN df.records :
              j <= Len(Expected) => FromFile(df.records[j], Expected[j])

\* C3: under the columns strategy a metadata field named like a payload column
\* makes load fail with the collision error, the payload is left with its own
\* columns only, and the file contributes no record.
C3_CollisionLeavesPayloadUntouched ==
    (info_as_cols /\ \E c \in Failures : calls[c].fn = "merge") =>
        /\ outcome = "raised"
        /\ "ColumnCollisionError" \in {error.type, error.cause}
        /\ DOMAIN data.col = files[i].cols
        /\ Len(result) = Len(Merged)

\* C4: load never returns an empty Dataset; a traversal that ends with nothing
\* accumulated raises EmptyResultError.
C4_EmptyResultFails ==
    /\ outcome = "returned" => Len(df.records) > 0
    /\ (outcome # "running" /\ Failures = {} /\ result = <<>>) =>
          /\ outcome = "raised"
          /\ error.type = "EmptyResultError"
          /\ df = NoDf

C4_Witness ==
    /\ outcome = "raised"
    /\ error.type = "EmptyResultError"
    /\ Len(files) = 2
    /\ ComponentExcluded(files[1])
    /\ \E c \in DOMAIN calls : calls[c].fn = "should_load_cb" /\ calls[c].out = "false"

\* The case of C6: columns strategy, side field disabled, include_dataset left
\* off, tables, and every contributing name of the form
\* '<datetime> <experimenter> <animal_id> <experiment_type>'.
PlainName(f) == Len(f.stem) = 4 /\ PatternMatch(f.stem, experiments).matched
C6_Case ==
    /\ outcome = "returned"
    /\ info_as_cols /\ ~include_ear /\ ~include_dataset
    /\ shape = "table"
    /\ \A j \in DOMAIN df.records : PlainName(SourceOf(j))
C6_Values(rec, f, names) ==
    /\ DOMAIN rec.col = f.cols \cup names
    /\ rec.nrows = f.rows
    /\ \A c \in DOMAIN rec.col : Len(rec.col[c]) = f.rows
    /\ \A r \in 1..f.rows :
          /\ \A c \in f.cols : rec.col[c][r] = PyInt(10 * r)
          /\ rec.col["datetime"][r] = PyDatetime(StampFields(f.stem[1]))
          /\ rec.col["experimenter"][r] = PyStr(<<f.stem[2]>>)
          /\ rec.col["animal_id"][r] = PyStr(<<f.stem[3]>>)
          /\ rec.col["experiment_type"][r] = PyStr(<<f.stem[4]>>)
          /\ rec.col["date"][r] = PyDate(StampFields(f.stem[1]))
          /\ rec.col["time"][r] = PyTime(StampFields(f.stem[1]))
          /\ "note" \in names => rec.col["note"][r] = PyNone

\* C6 as stated: the columns are the payload's plus datetime, experimenter,
\* animal_id, experiment_type, date and time, and nothing else.
C6_ColumnsAsStated ==
    C6_Case =>
        \A j \in DOMAIN df.records :
            C6_Values(df.records[j], SourceOf(j),
                      {"datetime", "experimenter", "animal_id", "experiment_type",
                       "date", "time"})

\* C6 amended: the columns are the payload's plus datetime, experimenter,
\* animal_id, note, experiment_type, date and time; one row per payload row
\* holding the file's parsed values, note holding None.
C6_ColumnsWithNote ==
    C6_Case =>
        /\ df.how = "concat"
        /\ Len(df.records) = Len(Merged)
        /\ \A j \in DOMAIN df.records :
              C6_Values(df.records[j], SourceOf(j),
                        {"datetime", "experimenter", "animal_id", "note",
                         "experiment_type", "date", "time"})

C6_Witness ==
    /\ C6_Case
    /\ Len(df.records) = 2
    /\ \A j \in DOMAIN df.records :
          /\ df.records[j].nrows = 1
          /\ SourceOf(j).cols = {"level"}
    /\ SourceOf(1).stem = GoodStemA
    /\ SourceOf(2).stem = GoodStemB

\* C9: with include_dataset every merged record carries a dataset field whose
\* value is the name of the file's immediate parent directory.
C9_DatasetIsParentName ==
    include_dataset =>
        \A j \in DOMAIN result :
            LET parent == SourceOf(j).dir
            IN  Field(result[j], "dataset") = PyStr(<<parent[Len(parent)]>>)

\* zip_data: its inputs and specification
DirNames == <<"s1", "s2", "s3", "s4">>
MemberNames == {"io.json", "eeg.csv"}

ArchiveInit ==
    /\ \E n \in 1..MaxDirs : dirs = SubSeq(DirNames, 1, n)
    /\ disk = [d \in Range(dirs) |-> [name \in MemberNames |-> 1]]
    /\ zips = [d \in Range(dirs) |-> NoZip]
    /\ sidecar = {}
    /\ removed = {}
    /\ printed = {}
    /\ k = 1
    /\ apc = "start"
    /\ validated = {}
    /\ IdleParser /\ IdleLoad /\ IdleQuery

ArchiveNext ==
    \/ ArchiveMake
    \/ ArchiveValidate
    \/ ArchiveSidecar
    \/ ArchiveRmtree
    \/ \E name \in MemberNames : Corrupt(name)
    \/ \E kind \in PathKinds : ValidateCall(kind)
ArchiveSpec == ArchiveInit /\ [][ArchiveNext]_vars

\* C8: a validation made while an unpacked file differs from its archived
\* member raises the integrity error (IOError) and names a differing member,
\* also when archive_data makes it.
C8_ValidationDetectsCorruption ==
    \A v \in validated :
        (~v.fault /\ v.differing # {}) =>
            /\ v.exc = "IOError"
            /\ v.names \cap v.differing # {}

ValidatedBy(d, excs) ==
    \E v \in validated : v.by = "archive_data" /\ v.dir = d /\ v.exc \in excs
ArchiveStep == ArchiveMake \/ ArchiveValidate \/ ArchiveSidecar \/ ArchiveRmtree
\* C10: a directory is removed only after its validation ended without an
\* error and its sidecar was written; after an IOError of the validation the
\* error is printed, no sidecar is written, the directory is kept, and every
\* remaining directory is still packaged.
C10_RemoveOnlyAfterValidation ==
    /\ \A d \in removed : d \in sidecar
    /\ \A d \in sidecar : ValidatedBy(d, {""}) /\ ~ValidatedBy(d, {"IOError"})
    /\ \A d \in Range(dirs) :
          ValidatedBy(d, {"IOError"}) =>
              /\ d \in printed
              /\ d \notin sidecar
              /\ d \notin removed
              /\ DOMAIN disk[d] = MemberNames
    /\ \A x \in DOMAIN dirs : x < k => zips[dirs[x]] # NoZip
    /\ k <= Len(dirs) => ENABLED ArchiveStep

C10_Witness ==
    /\ k > Len(dirs)
    /\ Len(dirs) >= 2
    /\ dirs[1] \in printed /\ dirs[1] \notin removed /\ dirs[1] \notin sidecar
    /\ dirs[2] \in removed /\ dirs[2] \in sidecar

====
